---- MODULE Spec2Model ----
(***************************************************************************)
(* Model of eVS2ETER.py: the aggregation and disclosure-control pipeline   *)
(* that turns eVS enrolment records into one wide ETER table per year.     *)
(*                                                                         *)
(* Cells of a table are tagged values: a number, a string or a null, so    *)
(* that 'm', 'c', '' and NaN stay distinct from every headcount.           *)
(* The level selectors 6 and 8 of map_levels are written "6" and "8".      *)
(***************************************************************************)
EXTENDS Integers, Sequences, FiniteSets

VARIABLES raw, df, year, category, pc, li, ci, selection, frames, out,
          arow, aflags, araised, acount

vars == <<raw, df, year, category, pc, li, ci, selection, frames, out,
          arow, aflags, araised, acount>>

pipeVars == <<raw, df, year, category, pc, li, ci, selection, frames, out>>
anonVars == <<arow, aflags, araised, acount>>

----------------------------------------------------------------------------
(* Cells *)

Num(n) == [t |-> "num", n |-> n, s |-> ""]
Str(s) == [t |-> "str", n |-> 0, s |-> s]
NaN == [t |-> "nan", n |-> 0, s |-> ""]

Range(q) == {q[k] : k \in 1..Len(q)}

----------------------------------------------------------------------------
(* Reference data, lines 19-81 and 114 *)

CharOrder ==
  <<"SPOL", "REZIDENT", "KLS_P16_OPIS_ANGL_1R", "NACIN_STUDIJA", "STAROST_OBMOCJA">>

mapping ==
  [char \in Range(CharOrder) |->
     CASE char = "SPOL" ->
            << <<"men", "MEN">>, <<"women", "WOMEN">> >>
       [] char = "REZIDENT" ->
            << <<"resident", "RES">>, <<"mobile", "MOB">> >>
       [] char = "KLS_P16_OPIS_ANGL_1R" ->
            << <<"Education", "FOE01">>,
               <<"Arts and humanities", "FOE02">>,
               <<"Social sciences, journalism and information", "FOE03">>,
               <<"Business, administration and law", "FOE04">>,
               <<"Natural sciences, mathematics and statistics", "FOE05">>,
               <<"Information and Communication Technologies (ICTs)", "FOE06">>,
               <<"Engineering, manufacturing and construction", "FOE07">>,
               <<"Agriculture, forestry, fisheries and veterinary", "FOE08">>,
               <<"Health and welfare", "FOE09">>,
               <<"Services", "FOE10">> >>
       [] char = "NACIN_STUDIJA" ->
            << <<"PART-TIME", "PARTTIME">>, <<"FULL-TIME", "FULLTIME">> >>
       [] char = "STAROST_OBMOCJA" ->
            << <<"under 20 years old", "BELOW20">>,
               <<"between 20 and 21 years old", "20TO21">>,
               <<"between 22 and 24 years old", "22TO24">>,
               <<"between 25 and 29 years old", "25TO29">>,
               <<"over 29 years old", "OVER29">> >>]

flag_suffix ==
  [char \in Range(CharOrder) |->
     CASE char = "SPOL" -> "GEN"
       [] char = "REZIDENT" -> "MOB"
       [] char = "KLS_P16_OPIS_ANGL_1R" -> "FOE"
       [] char = "NACIN_STUDIJA" -> "PARTFULL"
       [] char = "STAROST_OBMOCJA" -> "AGE"]

LevelOrder == <<"ISCED6", "ISCED7", "ISCED7LONG", "ISCED8">>

map_levels ==
  [level \in Range(LevelOrder) |->
     CASE level = "ISCED6" -> "6"
       [] level = "ISCED7" -> "7 - master"
       [] level = "ISCED7LONG" -> "7 - long degree"
       [] level = "ISCED8" -> "8"]

Categories == {"STUD", "GRAD"}

\* a template 'A{sep}B' is the pair <<A, B>>
prefix ==
  [cat \in Categories |->
     [level \in Range(LevelOrder) |->
        IF level = "ISCED8" THEN <<"RES", cat>> ELSE <<cat, "">>]]

format(template, sep) == template[1] \o sep \o template[2]

anonymisation_threshold == 5

\* the categories of the typed columns
Labels(char) == {mapping[char][k][1] : k \in 1..Len(mapping[char])}
YearCategories == 2017..2023
LevelCategories == {map_levels[level] : level \in Range(LevelOrder)}

----------------------------------------------------------------------------
(* Loading: the typed columns of eVS_kwargs, lines 84-99.  A value that is  *)
(* not one of a categorical column's categories is read as null.           *)

Categorical(v, cats) == IF v.t = "str" /\ v.s \in cats THEN v ELSE NaN

eVS_kwargs(col, v) ==
  CASE col = "STUDIJSKO_LETO" ->
         IF v.t = "num" /\ v.n \in YearCategories THEN v ELSE NaN
    [] col = "ISCED_VREDNOST" -> Categorical(v, LevelCategories)
    [] col \in Range(CharOrder) -> Categorical(v, Labels(col))
    [] OTHER -> v

read_excel(src) ==
  [columns |-> src.columns,
   rows |-> [k \in 1..Len(src.rows) |->
               [col \in DOMAIN src.rows[k] |-> eVS_kwargs(col, src.rows[k][col])]]]

----------------------------------------------------------------------------
(* Selection and aggregation *)

RECURSIVE SeqSum(_)
SeqSum(q) == IF q = <<>> THEN 0 ELSE q[1] + SeqSum(Tail(q))

\* Series.sum() of the nullable ST column: nulls are skipped
sum(rows) ==
  SeqSum([k \in 1..Len(rows) |-> IF rows[k].ST.t = "num" THEN rows[k].ST.n ELSE 0])

\* faulty variant: the level is not compared
f_year_level_anylevel(d, y, level) ==
  [columns |-> d.columns,
   rows |-> SelectSeq(d.rows, LAMBDA r : r.STUDIJSKO_LETO = Num(y))]

f_year_level(d, y, level) ==
  [columns |-> d.columns,
   rows |-> SelectSeq(d.rows,
              LAMBDA r : r.STUDIJSKO_LETO = Num(y)
                         /\ r.ISCED_VREDNOST = Str(map_levels[level]))]

RECURSIVE Sorted(_)
Sorted(S) ==
  IF S = {} THEN <<>>
  ELSE LET m == CHOOSE x \in S : \A y \in S : x <= y
       IN <<m>> \o Sorted(S \ {m})

\* the index of a groupby on SIFRA_ZAVODA: the codes that occur, sorted, each once
Institutions(d) == Sorted({d.rows[k].SIFRA_ZAVODA.n : k \in 1..Len(d.rows)})

\* str <= int raises TypeError
anonymise_raises(row, flags) ==
  \E col \in DOMAIN row \ {flags} : row[col].t = "str"

\* faulty variant: the threshold itself is not disclosive
anonymise_row_lt(row, flags) ==
  IF \E col \in DOMAIN row \ {flags} :
       row[col].t = "num" /\ row[col].n < anonymisation_threshold
  THEN [col \in DOMAIN row |-> IF col = flags THEN Str("c") ELSE Str("m")]
  ELSE row

anonymise_row(row, flags) ==
  IF \E col \in DOMAIN row \ {flags} :
       row[col].t = "num" /\ row[col].n <= anonymisation_threshold
  THEN [col \in DOMAIN row |-> IF col = flags THEN Str("c") ELSE Str("m")]
  ELSE row

\* prefix[category][level].format(sep='.') + level + code
data_name(cat, level, code) == format(prefix[cat][level], ".") \o level \o code

\* faulty variant: the flag name is built with the data separator
flag_name_dot(cat, level, suffix) == format(prefix[cat][level], ".") \o level \o suffix

\* prefix[category][level].format(sep='.FLAG') + level + suffix
flag_name(cat, level, suffix) == format(prefix[cat][level], ".FLAG") \o level \o suffix

\* groupby(['SIFRA_ZAVODA', char], observed=False)['ST'].sum().unstack(): one
\* row per institution code of d, one column per category of char; a row
\* whose char is null is in no group
\* faulty variant: observed=True, only the labels that occur in d become columns
groupby_unstack_observed(d, char) ==
  LET group(i, label) ==
        SelectSeq(d.rows, LAMBDA r : r.SIFRA_ZAVODA = Num(i) /\ r[char] = Str(label))
      seen == SelectSeq([k \in 1..Len(mapping[char]) |-> mapping[char][k][1]],
                LAMBDA label : \E k \in 1..Len(d.rows) : d.rows[k][char] = Str(label))
  IN [index |-> Institutions(d),
      columns |-> seen,
      data |-> [i \in Range(Institutions(d)) |->
                  [label \in Range(seen) |-> Num(sum(group(i, label)))]]]

groupby_unstack(d, char) ==
  LET group(i, label) ==
        SelectSeq(d.rows, LAMBDA r : r.SIFRA_ZAVODA = Num(i) /\ r[char] = Str(label))
  IN [index |-> Institutions(d),
      columns |-> [k \in 1..Len(mapping[char]) |-> mapping[char][k][1]],
      data |-> [i \in Range(Institutions(d)) |->
                  [label \in Labels(char) |-> Num(sum(group(i, label)))]]]

\* groupby(['SIFRA_ZAVODA'])['ST'].sum() as the one column named col
groupby_sum(d, col) ==
  LET group(i) == SelectSeq(d.rows, LAMBDA r : r.SIFRA_ZAVODA = Num(i))
  IN [index |-> Institutions(d), columns |-> <<col>>,
      data |-> [i \in Range(Institutions(d)) |-> [c \in {col} |-> Num(sum(group(i)))]]]

\* DataFrame.rename(columns=names)
rename(f, names) ==
  [index |-> f.index,
   columns |-> [k \in 1..Len(f.columns) |-> names[f.columns[k]]],
   data |-> [i \in DOMAIN f.data |->
               [col \in {names[c] : c \in Range(f.columns)} |->
                  f.data[i][CHOOSE c \in Range(f.columns) : names[c] = col]]]]

\* frame[col] = v: a new last column, or an existing one overwritten
setitem(f, col, v) ==
  [index |-> f.index,
   columns |-> IF col \in Range(f.columns) THEN f.columns ELSE Append(f.columns, col),
   data |-> [i \in DOMAIN f.data |->
               [c \in Range(f.columns) \cup {col} |->
                  IF c = col THEN v ELSE f.data[i][c]]]]

\* faulty variant: one disclosive cell masks the whole table
transform_table(f, flags) ==
  IF \E i \in DOMAIN f.data : anonymise_row(f.data[i], flags) # f.data[i]
  THEN [index |-> f.index, columns |-> f.columns,
        data |-> [i \in DOMAIN f.data |->
                    [col \in DOMAIN f.data[i] |->
                       IF col = flags THEN Str("c") ELSE Str("m")]]]
  ELSE f

\* DataFrame.transform(anonymise_row, axis='columns', flags=flags)
transform(f, flags) ==
  [index |-> f.index, columns |-> f.columns,
   data |-> [i \in DOMAIN f.data |-> anonymise_row(f.data[i], flags)]]

\* a frame with the level and characteristic it was built for
Block(level, char, flags, f) ==
  [level |-> level, char |-> char, flag |-> flags,
   index |-> f.index, columns |-> f.columns, data |-> f.data]

do_breakdown(d, y, cat, level, char) ==
  LET flag_column == flag_name(cat, level, flag_suffix[char])
      names == [label \in Labels(char) |->
                  data_name(cat, level,
                    mapping[char][CHOOSE k \in 1..Len(mapping[char]) :
                                    mapping[char][k][1] = label][2])]
      breakdown == rename(groupby_unstack(d, char), names)
  IN Block(level, char, flag_column,
           transform(setitem(breakdown, flag_column, Str("")), flag_column))

totals(d, cat, level) ==
  LET total_data == data_name(cat, level, "TOTAL")
      total_flag == flag_name(cat, level, "TOTAL")
  IN Block(level, "TOTAL", total_flag,
           transform(setitem(groupby_sum(d, total_data), total_flag, Str("")),
                     total_flag))

\* faulty variant: the missing cells are filled with zero while joining
Cells_fillzero(f, i) ==
  [k \in 1..Len(f.columns) |->
     IF i \in Range(f.index) THEN f.data[i][f.columns[k]] ELSE Num(0)]

\* one frame's cells for institution i, in column order; null where i is missing
Cells(f, i) ==
  [k \in 1..Len(f.columns) |->
     IF i \in Range(f.index) THEN f.data[i][f.columns[k]] ELSE NaN]

\* faulty variant: each frame's columns go in front of the earlier ones
RECURSIVE ConcatColumns_prepend(_)
RECURSIVE ConcatColumns(_)
ConcatColumns_prepend(fs) ==
  IF fs = <<>> THEN <<>> ELSE ConcatColumns_prepend(Tail(fs)) \o fs[1].columns

ConcatColumns(fs) ==
  IF fs = <<>> THEN <<>> ELSE fs[1].columns \o ConcatColumns(Tail(fs))

RECURSIVE ConcatCells(_, _)
ConcatCells(fs, i) ==
  IF fs = <<>> THEN <<>> ELSE Cells(fs[1], i) \o ConcatCells(Tail(fs), i)

\* the outer join of the frames' indexes, in order of first appearance
RECURSIVE UnionIndex(_, _)
UnionIndex(fs, acc) ==
  IF fs = <<>> THEN acc
  ELSE UnionIndex(Tail(fs),
         acc \o SelectSeq(fs[1].index, LAMBDA i : i \notin Range(acc)))

\* pd.concat(frames, axis=1)
concat(fs) ==
  LET index == UnionIndex(fs, <<>>)
  IN [index |-> index, columns |-> ConcatColumns(fs),
      data |-> [i \in Range(index) |-> ConcatCells(fs, i)]]

\* the frames one pass of the level loop appends, lines 152-162
LevelFrames(d, y, cat, level) ==
  LET sel == f_year_level(d, y, level)
      present == SelectSeq(CharOrder, LAMBDA char : char \in d.columns)
  IN [k \in 1..Len(present) |-> do_breakdown(sel, y, cat, level, present[k])]
     \o <<totals(sel, cat, level)>>

RECURSIVE YearFrames(_, _, _, _)
YearFrames(d, y, cat, levels) ==
  IF levels = <<>> THEN <<>>
  ELSE LevelFrames(d, y, cat, levels[1]) \o YearFrames(d, y, cat, Tail(levels))

do_year(d, y, cat) == concat(YearFrames(d, y, cat, LevelOrder))

----------------------------------------------------------------------------
(* Inputs *)

MaxRecords == 2
MaxInst == 2
MaxWidth == 3
MaxApply == 2

BaseColumns == {"STUDIJSKO_LETO", "SIFRA_ZAVODA", "ISCED_VREDNOST", "ST"}
Years == <<2017, 2018>>
\* two configured level values and one outside the domain
RawLevels == <<"7 - master", "7 - long degree", "5">>
\* a null headcount, a count at the threshold and a count above it
Headcounts == <<NaN, Num(anonymisation_threshold), Num(anonymisation_threshold + 1)>>

\* a raw label: the p-th label of the characteristic, or one outside its domain
RawLabel(char, p) == IF p = 0 THEN "unknown" ELSE mapping[char][p][1]

\* a record is <<institution, year, level, headcount, label>>, all but the
\* institution as positions in the sequences above
ParamSpace(insts, years, levels, counts, labels) ==
  insts \X years \X levels \X counts \X labels

Rank(p) ==
  (((p[1] * (Len(Years) + 1) + p[2]) * (Len(RawLevels) + 1) + p[3])
     * (Len(Headcounts) + 1) + p[4]) * 3 + p[5]

RawRow(schema, p) ==
  [col \in BaseColumns \cup schema |->
     CASE col = "SIFRA_ZAVODA" -> Num(p[1])
       [] col = "STUDIJSKO_LETO" -> Num(Years[p[2]])
       [] col = "ISCED_VREDNOST" -> Str(RawLevels[p[3]])
       [] col = "ST" -> Headcounts[p[4]]
       [] OTHER -> Str(RawLabel(col, p[5]))]

NoFrame == [index |-> <<>>, columns |-> <<>>, data |-> <<>>]
NoTable == [columns |-> {}, rows |-> <<>>]

\* the state when do_year is entered: the workbook is loaded, nothing is built.
\* Row order does not enter any sum, so workbooks are drawn up to row order.
InitPipe(schemas, cats, space, maxn) ==
  /\ \E schema \in schemas, n \in 0..maxn :
       \E ps \in [1..n -> space] :
         /\ \A k \in 1..(n - 1) : Rank(ps[k]) <= Rank(ps[k + 1])
         /\ raw = [columns |-> BaseColumns \cup schema,
                   rows |-> [k \in 1..n |-> RawRow(schema, ps[k])]]
  /\ df = read_excel(raw)
  /\ year = Years[1]
  /\ category \in cats
  /\ pc = "level"
  /\ li = 1
  /\ ci = 1
  /\ selection = NoTable
  /\ frames = <<>>
  /\ out = NoFrame

IdleAnon ==
  /\ arow = <<>>
  /\ aflags = ""
  /\ araised = FALSE
  /\ acount = 0

\* one year and level: every institution, headcount and label
InitRecords ==
  InitPipe({{"SPOL", "KLS_P16_OPIS_ANGL_1R"}}, {"STUD"},
           ParamSpace(1..MaxInst, {1}, {2}, 1..Len(Headcounts), 0..2),
           MaxRecords)

\* every institution, year and level value
InitFilter ==
  InitPipe({{"REZIDENT", "STAROST_OBMOCJA"}}, {"GRAD"},
           ParamSpace(1..MaxInst, 1..Len(Years), 1..Len(RawLevels),
                      {Len(Headcounts)}, {1}),
           MaxRecords)

\* every schema and both categories, over at most one record
InitSchema ==
  InitPipe(SUBSET Range(CharOrder), Categories,
           ParamSpace(1..MaxInst, {1}, 1..2, {Len(Headcounts)}, {1}), 1)

\* one institution and year, with one record more
InitGroup ==
  InitPipe({{"SPOL", "NACIN_STUDIJA"}}, {"GRAD"},
           ParamSpace({1}, {1}, 1..2, {1, Len(Headcounts)}, 0..2),
           MaxRecords + 1)

Init == (InitRecords \/ InitFilter \/ InitSchema \/ InitGroup) /\ IdleAnon

----------------------------------------------------------------------------
(* do_year, lines 146-163, one loop iteration per step *)

FYearLevel ==
  /\ pc = "level"
  /\ li <= Len(LevelOrder)
  /\ selection' = f_year_level(df, year, LevelOrder[li])
  /\ ci' = 1
  /\ pc' = "char"
  /\ UNCHANGED <<raw, df, year, category, li, frames, out>>

DoBreakdown ==
  /\ pc = "char"
  /\ ci <= Len(CharOrder)
  /\ CharOrder[ci] \in df.columns
  /\ frames' = Append(frames,
                 do_breakdown(selection, year, category, LevelOrder[li], CharOrder[ci]))
  /\ ci' = ci + 1
  /\ UNCHANGED <<raw, df, year, category, pc, li, selection, out>>

SkipChar ==
  /\ pc = "char"
  /\ ci <= Len(CharOrder)
  /\ CharOrder[ci] \notin df.columns
  /\ ci' = ci + 1
  /\ UNCHANGED <<raw, df, year, category, pc, li, selection, frames, out>>

Totals ==
  /\ pc = "char"
  /\ ci > Len(CharOrder)
  /\ frames' = Append(frames, totals(selection, category, LevelOrder[li]))
  /\ li' = li + 1
  /\ pc' = "level"
  /\ UNCHANGED <<raw, df, year, category, ci, selection, out>>

Concat ==
  /\ pc = "level"
  /\ li > Len(LevelOrder)
  /\ out' = concat(frames)
  /\ pc' = "done"
  /\ UNCHANGED <<raw, df, year, category, li, ci, selection, frames>>

Next ==
  \/ FYearLevel /\ UNCHANGED anonVars
  \/ DoBreakdown /\ UNCHANGED anonVars
  \/ SkipChar /\ UNCHANGED anonVars
  \/ Totals /\ UNCHANGED anonVars
  \/ Concat /\ UNCHANGED anonVars

----------------------------------------------------------------------------
(* anonymise_row on its own: rows of every width, applied repeatedly *)

\* cells a row can hold: counts around the threshold, and the masked marker
AnonCells ==
  {Num(n) : n \in (anonymisation_threshold - 1)..(anonymisation_threshold + 1)}
    \cup {Str("m")}

InitAnon ==
  /\ InitPipe({{}}, {"STUD"}, {}, 0)
  /\ \E cat \in Categories, level \in {"ISCED6", "ISCED8"}, w \in 1..MaxWidth :
       LET f == do_breakdown(NoTable, 2017, cat, level, "KLS_P16_OPIS_ANGL_1R")
           cols == {f.columns[k] : k \in 1..w}
       IN /\ aflags = f.flag
          /\ \E data \in [cols -> AnonCells], fl \in {Str(""), Str("c")} :
               arow = [col \in cols \cup {f.flag} |->
                         IF col = f.flag THEN fl ELSE data[col]]
  /\ araised = FALSE
  /\ acount = 0

Returns ==
  /\ acount < MaxApply
  /\ ~araised
  /\ ~anonymise_raises(arow, aflags)
  /\ arow' = anonymise_row(arow, aflags)
  /\ acount' = acount + 1
  /\ UNCHANGED <<aflags, araised>>

Raises ==
  /\ acount < MaxApply
  /\ ~araised
  /\ anonymise_raises(arow, aflags)
  /\ araised' = TRUE
  /\ acount' = acount + 1
  /\ UNCHANGED <<aflags, arow>>

NextAnon ==
  \/ Returns /\ UNCHANGED pipeVars
  \/ Raises /\ UNCHANGED pipeVars

Spec == Init /\ [][Next]_vars
SpecAnon == InitAnon /\ [][NextAnon]_vars

----------------------------------------------------------------------------
(* What the input says, read off the loaded records directly *)

InSubset(r, level) ==
  r.STUDIJSKO_LETO = Num(year) /\ r.ISCED_VREDNOST = Str(map_levels[level])

Headcount(r) == IF r.ST.t = "num" THEN r.ST.n ELSE 0

\* the institution codes with a record of this year and level
SubsetCodes(level) ==
  {df.rows[k].SIFRA_ZAVODA.n : k \in {n \in 1..Len(df.rows) : InSubset(df.rows[n], level)}}

EmptyLevel(level) == SubsetCodes(level) = {}

\* the summed headcount of institution i at a level, over the records with the
\* j-th label of char, or over all of them for the totals
TrueCount(i, level, char, j) ==
  SeqSum([k \in 1..Len(df.rows) |->
            IF /\ InSubset(df.rows[k], level)
               /\ df.rows[k].SIFRA_ZAVODA = Num(i)
               /\ (char = "TOTAL" \/ df.rows[k][char] = Str(mapping[char][j][1]))
            THEN Headcount(df.rows[k]) ELSE 0])

\* the number of data cells of a block
Width(char) == IF char = "TOTAL" THEN 1 ELSE Len(mapping[char])

Masked(f, i) == f.data[i][f.flag] = Str("c")
Clear(f, i) == f.data[i][f.flag] = Str("")

Distinct(q) == \A a, b \in 1..Len(q) : a # b => q[a] # q[b]

----------------------------------------------------------------------------
RECURSIVE Offset(_)
Offset(b) == IF b = 1 THEN 0 ELSE Offset(b - 1) + Len(frames[b - 1].columns)

\* C7: the table do_year returns has one row for each institution code of any
\* of the year's frames, no code twice, and null cells in the columns of a
\* frame the institution is missing from.
C7_Index ==
  pc = "done" =>
    /\ Range(out.index) = UNION {SubsetCodes(level) : level \in Range(LevelOrder)}
    /\ Range(out.index) = UNION {Range(frames[b].index) : b \in 1..Len(frames)}
    /\ Distinct(out.index)
    /\ DOMAIN out.data = Range(out.index)
    /\ \A i \in Range(out.index) : \A b \in 1..Len(frames) :
         \A j \in 1..Len(frames[b].columns) :
           IF i \in Range(frames[b].index)
           THEN out.data[i][Offset(b) + j] = frames[b].data[i][frames[b].columns[j]]
           ELSE out.data[i][Offset(b) + j] = NaN

\* an institution that is in one frame and missing from another
C7_Witness ==
  /\ pc = "done"
  /\ \E i \in Range(out.index) :
       /\ \E b \in 1..Len(frames) : i \in Range(frames[b].index)
       /\ \E b \in 1..Len(frames) :
            i \notin Range(frames[b].index) /\ frames[b].index # <<>>

\* the blocks do_year is to emit for the loaded schema, in order
ExpectedBlocks ==
  LET present ==
        SelectSeq(<<"SPOL", "REZIDENT", "KLS_P16_OPIS_ANGL_1R", "NACIN_STUDIJA",
                    "STAROST_OBMOCJA">>,
                  LAMBDA char : char \in df.columns)
      of(level) == [k \in 1..Len(present) |-> <<level, present[k]>>]
                     \o << <<level, "TOTAL">> >>
  IN of("ISCED6") \o of("ISCED7") \o of("ISCED7LONG") \o of("ISCED8")

\* the columns of one block: a data column per label, then the flag
BlockColumns(level, char) ==
  IF char = "TOTAL"
  THEN <<data_name(category, level, "TOTAL"), flag_name(category, level, "TOTAL")>>
  ELSE [j \in 1..Len(mapping[char]) |-> data_name(category, level, mapping[char][j][2])]
         \o <<flag_name(category, level, flag_suffix[char])>>

RECURSIVE BlocksColumns(_)
BlocksColumns(blocks) ==
  IF blocks = <<>> THEN <<>>
  ELSE BlockColumns(blocks[1][1], blocks[1][2]) \o BlocksColumns(Tail(blocks))

AllKeys ==
  UNION {{<<level, char, "data", mapping[char][j][2]>> : j \in 1..Len(mapping[char])}
           \cup {<<level, char, "flag", flag_suffix[char]>>} :
         level \in Range(LevelOrder), char \in Range(CharOrder)}
  \cup {<<level, "TOTAL", kind, "TOTAL">> :
          level \in Range(LevelOrder), kind \in {"data", "flag"}}

NameOf(key) ==
  IF key[3] = "data" THEN data_name(category, key[1], key[4])
  ELSE flag_name(category, key[1], key[4])

\* C10: the names generated for a category are pairwise different: the
\* naming function is injective on (level, characteristic or TOTAL, code or
\* flag), and no two columns of the concatenated table share a name.
C10_DistinctNames ==
  pc = "done" =>
    /\ Cardinality({NameOf(key) : key \in AllKeys}) = Cardinality(AllKeys)
    /\ Distinct(out.columns)

\* do_year has returned a table with the blocks of all five characteristics
C10_Witness ==
  /\ pc = "done"
  /\ Range(CharOrder) \subseteq df.columns
  /\ Len(out.columns) = 4 * (2 + 2 + 10 + 2 + 5 + 5 + 2)

\* C4: where neither the totals row nor the characteristic row of an
\* institution is masked, the total equals the sum of the characteristic
\* row's data cells.
C4_Conservation ==
  \A b, t \in 1..Len(frames) :
    (/\ frames[b].char # "TOTAL"
     /\ frames[t].char = "TOTAL"
     /\ frames[t].level = frames[b].level)
    => \A i \in Range(frames[b].index) \cap Range(frames[t].index) :
         (Clear(frames[b], i) /\ Clear(frames[t], i))
         => frames[t].data[i][frames[t].columns[1]].n
              = SeqSum([j \in 1..Len(mapping[frames[b].char]) |->
                          frames[b].data[i][frames[b].columns[j]].n])

\* C5: a record with a characteristic or level value outside CodeMapping's
\* domain is reported: do_year does not return normally over such a record.
C5_Reported ==
  pc = "done" =>
    \A k \in 1..Len(raw.rows) :
      /\ raw.rows[k].ISCED_VREDNOST.s \in LevelCategories
      /\ \A char \in raw.columns \cap Range(CharOrder) :
           raw.rows[k][char].s \in Labels(char)

\* the frames do_year builds from the records without the k-th
Without(k) ==
  [columns |-> df.columns,
   rows |-> SubSeq(df.rows, 1, k - 1) \o SubSeq(df.rows, k + 1, Len(df.rows))]

\* the records with the k-th record's value of char made null
WithNull(k, char) ==
  [columns |-> df.columns,
   rows |-> [n \in 1..Len(df.rows) |->
               IF n = k THEN [df.rows[n] EXCEPT ![char] = NaN] ELSE df.rows[n]]]

AllMasked(row, flags) ==
  /\ row[flags] = Str("c")
  /\ \A col \in DOMAIN row \ {flags} : row[col] = Str("m")

\* C2: anonymise_row applied to an already masked row (every data cell 'm',
\* flag 'c') returns normally and returns the identical row.
C2_Idempotent ==
  [][(AllMasked(arow, aflags) /\ acount' = acount + 1)
       => (~araised' /\ arow' = arow)]_vars

====
